---- MODULE Spec2Model ----
(***************************************************************************)
(* The cleaning pipeline of exploratory-data-analysis.py: the statements   *)
(* that turn the loaded survey table df_blizzard_salary into the cleaned   *)
(* table df_blizzard_salary_vf.                                            *)
(*                                                                         *)
(* A text cell is a record [na, v]: na says the value is missing (NaN),    *)
(* v is the text as a sequence of one-character strings.  A numeric cell   *)
(* is a record [na, v] with v an integer: salaries are modelled in whole   *)
(* dollars, where the float arithmetic of the code is exact.               *)
(***************************************************************************)
EXTENDS Integers, Sequences, FiniteSets, TLC

VARIABLES pc, df_blizzard_salary, df_blizzard_salary_act, df_blizzard_salary_vf

vars == <<pc, df_blizzard_salary, df_blizzard_salary_act, df_blizzard_salary_vf>>

(***************************************************************************)
(* Characters and the character classes of Python's re module.             *)
(***************************************************************************)
LowerLetters ==
    {"a","b","c","d","e","f","g","h","i","j","k","l","m",
     "n","o","p","q","r","s","t","u","v","w","x","y","z"}

UpperLetters ==
    {"A","B","C","D","E","F","G","H","I","J","K","L","M",
     "N","O","P","Q","R","S","T","U","V","W","X","Y","Z"}

Digits == {"0","1","2","3","4","5","6","7","8","9"}

\* \w of re: letters, digits and the underscore.
IsWord(c) == c \in LowerLetters \cup UpperLetters \cup Digits \cup {"_"}

\* \s of re: white space.
IsSpace(c) == c \in {" ", "\t", "\n", "\r", "\f"}

\* str.lower() on one character.
LowerChar(c) ==
    CASE c = "A" -> "a" [] c = "B" -> "b" [] c = "C" -> "c" [] c = "D" -> "d"
      [] c = "E" -> "e" [] c = "F" -> "f" [] c = "G" -> "g" [] c = "H" -> "h"
      [] c = "I" -> "i" [] c = "J" -> "j" [] c = "K" -> "k" [] c = "L" -> "l"
      [] c = "M" -> "m" [] c = "N" -> "n" [] c = "O" -> "o" [] c = "P" -> "p"
      [] c = "Q" -> "q" [] c = "R" -> "r" [] c = "S" -> "s" [] c = "T" -> "t"
      [] c = "U" -> "u" [] c = "V" -> "v" [] c = "W" -> "w" [] c = "X" -> "x"
      [] c = "Y" -> "y" [] c = "Z" -> "z" [] OTHER -> c

\* str.lower() on a text.
Lower(s) == [i \in 1..Len(s) |-> LowerChar(s[i])]

(***************************************************************************)
(* Series.str.replace(oldvalue, newvalue, regex=True) is re.sub on every   *)
(* text that is not missing.  A regular expression is kept as its source   *)
(* text and interpreted as re does: a backtracking matcher with greedy     *)
(* stars, tried at every position from left to right.                      *)
(***************************************************************************)

\* Least and greatest element of a non-empty set of integers.
Min(S) == CHOOSE x \in S : \A y \in S : x <= y

Max(S) == CHOOSE x \in S : \A y \in S : y <= x

\* Whether re[k] is escaped: an odd number of backslashes stands right before it.
Escaped(re, k) ==
    LET others == {j \in 1..(k - 1) : re[j] # "\\"}
        last == IF others = {} THEN 0 ELSE Max(others)
    IN  (k - 1 - last) % 2 = 1

\* The closing parenthesis of the group opened at re[k].
CloseParen(re, k) ==
    Min({j \in (k + 1)..Len(re) : re[j] = ")" /\ ~Escaped(re, j)} \cup {Len(re) + 1})

\* Whether re[k] lies inside a group (after its opening parenthesis).
InGroup(re, k) ==
    \E o \in 1..(k - 1) :
        re[o] = "(" /\ ~Escaped(re, o) /\ k <= CloseParen(re, o)

\* The atom of re that starts at re[k], without its star: its kind, the
\* character it names, the characters of re it takes, the body of a lookahead.
BareAtomAt(re, k) ==
    IF re[k] = "\\" /\ k < Len(re)
    THEN CASE re[k+1] = "b" -> [kind |-> "boundary", ch |-> "", len |-> 2, body |-> <<>>]
           [] re[k+1] = "s" -> [kind |-> "space", ch |-> "", len |-> 2, body |-> <<>>]
           [] re[k+1] = "w" -> [kind |-> "word", ch |-> "", len |-> 2, body |-> <<>>]
           [] OTHER -> [kind |-> "literal", ch |-> re[k+1], len |-> 2, body |-> <<>>]
    ELSE IF re[k] = "."
    THEN [kind |-> "any", ch |-> "", len |-> 1, body |-> <<>>]
    ELSE IF re[k] = "(" /\ k + 2 <= Len(re) /\ re[k+1] = "?" /\ re[k+2] = "!"
    THEN LET c == CloseParen(re, k)
         IN  [kind |-> "not_ahead", ch |-> "", len |-> c - k + 1,
              body |-> SubSeq(re, k + 3, c - 1)]
    ELSE [kind |-> "literal", ch |-> re[k], len |-> 1, body |-> <<>>]

\* The atoms of re in order, each with its star.  The syntax read is the one the
\* program's expressions use: literals, escapes, the dot, \b \s \w, a star
\* after an atom and the negative lookahead (?!...).
RECURSIVE BareAtoms(_)
BareAtoms(re) ==
    LET starts == {k \in 1..Len(re) :
                      ~Escaped(re, k) /\ re[k] # "*" /\ ~InGroup(re, k)}
        nth(r) == CHOOSE k \in starts : Cardinality({j \in starts : j < k}) = r - 1
        atom(k) ==
            LET a == BareAtomAt(re, k)
            IN  [kind |-> a.kind, ch |-> a.ch,
                 body |-> IF a.kind = "not_ahead" THEN BareAtoms(a.body) ELSE <<>>,
                 star |-> k + a.len <= Len(re) /\ re[k + a.len] = "*"]
    IN  [r \in 1..Cardinality(starts) |-> atom(nth(r))] \o <<>>

\* The position after the run of unstarred literal atoms that starts at p[k].
TextEnd(p, k) ==
    Min({j \in k..Len(p) : p[j].kind # "literal" \/ p[j].star} \cup {Len(p) + 1})

\* The same atoms, each knowing the literal text that starts at it (the
\* characters of the unstarred literal atoms that follow one another from it).
RECURSIVE WithText(_)
WithText(p) ==
    [k \in 1..Len(p) |->
        [kind |-> p[k].kind, ch |-> p[k].ch, star |-> p[k].star,
         body |-> WithText(p[k].body),
         text |-> [j \in 1..(TextEnd(p, k) - k) |-> p[k + j - 1].ch] \o <<>>]] \o <<>>

Atoms(re) == WithText(BareAtoms(re))

\* Whether atom a takes character c.  The dot takes anything but a newline.
Accepts(a, c) ==
    CASE a.kind = "literal" -> c = a.ch
      [] a.kind = "any" -> c # "\n"
      [] a.kind = "space" -> IsSpace(c)
      [] a.kind = "word" -> IsWord(c)
      [] OTHER -> FALSE

\* \b at position i of s: exactly one of s[i-1], s[i] is a word character.
AtBoundary(s, i) ==
    (i > 1 /\ IsWord(s[i-1])) # (i <= Len(s) /\ IsWord(s[i]))

\* The position after the longest run of characters from s[i] on that atom a takes.
RunEnd(a, s, i) ==
    Min({j \in i..Len(s) : ~Accepts(a, s[j])} \cup {Len(s) + 1})

\* Atoms p from p[k] on, matched against s from s[i] on: the position after the
\* match that backtracking finds first, or 0 when there is none.  A starred atom
\* is greedy: it takes the longest run after which the rest still matches.
RECURSIVE MatchFrom(_, _, _, _)
MatchFrom(p, k, s, i) ==
    IF k > Len(p) THEN i
    ELSE IF p[k].kind = "boundary"
    THEN IF AtBoundary(s, i) THEN MatchFrom(p, k + 1, s, i) ELSE 0
    ELSE IF p[k].kind = "not_ahead"
    THEN IF MatchFrom(p[k].body, 1, s, i) # 0 THEN 0 ELSE MatchFrom(p, k + 1, s, i)
    ELSE IF p[k].star
    THEN LET ends == {j \in i..RunEnd(p[k], s, i) : MatchFrom(p, k + 1, s, j) # 0}
         IN  IF ends = {} THEN 0 ELSE MatchFrom(p, k + 1, s, Max(ends))
    ELSE IF p[k].kind = "literal"
    THEN LET n == Len(p[k].text)
         IN  IF i + n - 1 <= Len(s) /\ SubSeq(s, i, i + n - 1) = p[k].text
             THEN MatchFrom(p, k + n, s, i + n)
             ELSE 0
    ELSE IF i <= Len(s) /\ Accepts(p[k], s[i]) THEN MatchFrom(p, k + 1, s, i + 1)
    ELSE 0

\* re.sub from position i on, given the set of positions where p matches: the
\* leftmost match at or after i is replaced by repl, the search goes on after
\* it, and what lies between matches is copied.  (An empty match, which no
\* expression of the program has, is followed by one copied character.)
RECURSIVE SubFrom(_, _, _, _, _)
SubFrom(p, repl, s, i, starts) ==
    LET later == {j \in starts : j >= i}
    IN  IF later = {} THEN SubSeq(s, i, Len(s))
        ELSE LET j == Min(later)
                 e == MatchFrom(p, 1, s, j)
             IN  SubSeq(s, i, j - 1) \o repl \o
                 (IF e > j THEN SubFrom(p, repl, s, e, starts)
                  ELSE IF j <= Len(s)
                       THEN <<s[j]>> \o SubFrom(p, repl, s, j + 1, starts)
                       ELSE <<>>)

\* re.sub that starts its scan one character late.
re_sub_from_second(p, repl, s) ==
    SubFrom(p, repl, s, 2, {j \in 1..(Len(s) + 1) : MatchFrom(p, 1, s, j) # 0})

\* re.sub(p, repl, s), p given as atoms.
re_sub(p, repl, s) ==
    SubFrom(p, repl, s, 1, {j \in 1..(Len(s) + 1) : MatchFrom(p, 1, s, j) # 0})

\* Whether p matches somewhere in s.
re_search(p, s) == \E i \in 1..(Len(s) + 1) : MatchFrom(p, 1, s, i) # 0

(***************************************************************************)
(* Cells, rows and tables.  A row is a record of cells by column name,     *)
(* with the label idx that the index of the DataFrame gives it.            *)
(***************************************************************************)

\* A missing value (NaN).
NaN == [na |-> TRUE]

\* A present value: a text (sequence of characters) or a number.
Cell(x) == [na |-> FALSE, v |-> x]

\* Series.str.lower() left out.
str_lower_left_out(c) == c

\* Series.str.lower(): missing values stay missing.
str_lower(c) == IF c.na THEN NaN ELSE Cell(Lower(c.v))

\* One entry of a substitution dictionary: oldvalue (a regular expression) and
\* newvalue.
Rule(oldvalue, newvalue) == [pat |-> Atoms(oldvalue), repl |-> newvalue]

\* str.replace that leaves a missing value where the text comes out empty.
str_replace_blank_is_missing(c, rule) ==
    IF c.na \/ re_sub(rule.pat, rule.repl, c.v) = <<>> THEN NaN
    ELSE Cell(re_sub(rule.pat, rule.repl, c.v))

\* Series.str.replace(oldvalue, newvalue, regex=True) on one cell.
str_replace(c, rule) ==
    IF c.na THEN NaN ELSE Cell(re_sub(rule.pat, rule.repl, c.v))

\* The substitution dictionary of the titles, in its insertion order.
replacements_title == <<
    \* \bx\b  ->  ''
    Rule(<<"\\","b","x","\\","b">>,
         <<>>),
    \* \bposition in ii tier\b  ->  ''
    Rule(<<"\\","b","p","o","s","i","t","i","o","n"," ","i","n"," ","i","i"," ","t","i","e","r","\\",
          "b">>,
         <<>>),
    \* .*can't say \(loss of anonimity\).*  ->  ''
    Rule(<<".","*","c","a","n","'","t"," ","s","a","y"," ","\\","(","l","o","s","s"," ","o","f"," ","a",
          "n","o","n","i","m","i","t","y","\\",")",".","*">>,
         <<>>),
    \* \bchoose not to disclose\b  ->  ''
    Rule(<<"\\","b","c","h","o","o","s","e"," ","n","o","t"," ","t","o"," ","d","i","s","c","l","o","s",
          "e","\\","b">>,
         <<>>),
    \* \bsenior i\b  ->  ''
    Rule(<<"\\","b","s","e","n","i","o","r"," ","i","\\","b">>,
         <<>>),
    \* \bsr\.  ->  'senior'
    Rule(<<"\\","b","s","r","\\",".">>,
         <<"s","e","n","i","o","r">>),
    \* \bsenor  ->  'senior'
    Rule(<<"\\","b","s","e","n","o","r">>,
         <<"s","e","n","i","o","r">>),
    \* \b1  ->  'i'
    Rule(<<"\\","b","1">>,
         <<"i">>),
    \* \b2  ->  'ii'
    Rule(<<"\\","b","2">>,
         <<"i","i">>),
    \* .*senior software egr i\.\-.*  ->  'senior software engineer i'
    Rule(<<".","*","s","e","n","i","o","r"," ","s","o","f","t","w","a","r","e"," ","e","g","r"," ","i",
          "\\",".","\\","-",".","*">>,
         <<"s","e","n","i","o","r"," ","s","o","f","t","w","a","r","e"," ","e","n","g","i","n","e","e",
          "r"," ","i">>),
    \* .*associate pm \(my range is on the same scale as pm, but not my actual title\)*  ->  'associate pm'
    Rule(<<".","*","a","s","s","o","c","i","a","t","e"," ","p","m"," ","\\","(","m","y"," ","r","a","n",
          "g","e"," ","i","s"," ","o","n"," ","t","h","e"," ","s","a","m","e"," ","s","c","a",
          "l","e"," ","a","s"," ","p","m",","," ","b","u","t"," ","n","o","t"," ","m","y"," ",
          "a","c","t","u","a","l"," ","t","i","t","l","e","\\",")","*">>,
         <<"a","s","s","o","c","i","a","t","e"," ","p","m">>),
    \* .*principle*  ->  'principal'
    Rule(<<".","*","p","r","i","n","c","i","p","l","e","*">>,
         <<"p","r","i","n","c","i","p","a","l">>),
    \* .*3d artist\(character\)*  ->  '3d artist (character artist)'
    Rule(<<".","*","3","d"," ","a","r","t","i","s","t","\\","(","c","h","a","r","a","c","t","e","r","\\",
          ")","*">>,
         <<"3","d"," ","a","r","t","i","s","t"," ","(","c","h","a","r","a","c","t","e","r"," ","a","r",
          "t","i","s","t",")">>),
    \* .*ui \/ux designer*  ->  'ui/ux designer'
    Rule(<<".","*","u","i"," ","\\","/","u","x"," ","d","e","s","i","g","n","e","r","*">>,
         <<"u","i","/","u","x"," ","d","e","s","i","g","n","e","r">>),
    \* .*associate software development engineer in test*  ->  'associate software developer engineer in test'
    Rule(<<".","*","a","s","s","o","c","i","a","t","e"," ","s","o","f","t","w","a","r","e"," ","d","e",
          "v","e","l","o","p","m","e","n","t"," ","e","n","g","i","n","e","e","r"," ","i","n",
          " ","t","e","s","t","*">>,
         <<"a","s","s","o","c","i","a","t","e"," ","s","o","f","t","w","a","r","e"," ","d","e","v","e",
          "l","o","p","e","r"," ","e","n","g","i","n","e","e","r"," ","i","n"," ","t","e","s",
          "t">>),
    \* \bqa\b(?!\s\w)  ->  'qa analyst'
    Rule(<<"\\","b","q","a","\\","b","(","?","!","\\","s","\\","w",")">>,
         <<"q","a"," ","a","n","a","l","y","s","t">>)
    >>

\* The substitution dictionary of the locations.
replacements_location == <<
    \* .*los angeles center studios.*  ->  'los angeles'
    Rule(<<".","*","l","o","s"," ","a","n","g","e","l","e","s"," ","c","e","n","t","e","r"," ","s","t",
          "u","d","i","o","s",".","*">>,
         <<"l","o","s"," ","a","n","g","e","l","e","s">>),
    \* .*work from home - virginia*  ->  'virginia'
    Rule(<<".","*","w","o","r","k"," ","f","r","o","m"," ","h","o","m","e"," ","-"," ","v","i","r","g",
          "i","n","i","a","*">>,
         <<"v","i","r","g","i","n","i","a">>)
    >>

\* The dictionary of the performance ratings with the last expression written
\* without its wildcards.
replacements_performance_rating_bare_top == <<
    Rule(<<".","*","d","e","v","e","l","o","p","i","n","g",".","*">>,
         <<"1","-","d","e","v","e","l","o","p","i","n","g">>),
    Rule(<<".","*","s","u","c","c","e","s","s","f","u","l",".","*">>,
         <<"2","-","s","u","c","c","e","s","s","f","u","l">>),
    Rule(<<".","*","h","i","g","h",".","*">>,
         <<"3","-","h","i","g","h">>),
    Rule(<<"t","o","p">>,
         <<"4","-","t","o","p">>)
    >>

\* The substitution dictionary of the performance ratings.
replacements_performance_rating == <<
    \* .*developing.*  ->  '1-developing'
    Rule(<<".","*","d","e","v","e","l","o","p","i","n","g",".","*">>,
         <<"1","-","d","e","v","e","l","o","p","i","n","g">>),
    \* .*successful.*  ->  '2-successful'
    Rule(<<".","*","s","u","c","c","e","s","s","f","u","l",".","*">>,
         <<"2","-","s","u","c","c","e","s","s","f","u","l">>),
    \* .*high.*  ->  '3-high'
    Rule(<<".","*","h","i","g","h",".","*">>,
         <<"3","-","h","i","g","h">>),
    \* .*top.*  ->  '4-top'
    Rule(<<".","*","t","o","p",".","*">>,
         <<"4","-","t","o","p">>)
    >>

\* The loop over the entries that stops one entry early.
RECURSIVE ReplaceEntries_skip_last(_, _, _, _)
ReplaceEntries_skip_last(DataFrame, col, replacements, n) ==
    IF n >= Len(replacements) THEN DataFrame
    ELSE ReplaceEntries_skip_last(
             [r \in 1..Len(DataFrame) |->
                 [DataFrame[r] EXCEPT ![col] = str_replace(@, replacements[n])]],
             col, replacements, n + 1)

\* DataFrame[col] = DataFrame[col].str.replace(...) for the entries of
\* replacements from the n-th on, one after the other, each on the whole column.
RECURSIVE ReplaceEntries(_, _, _, _)
ReplaceEntries(DataFrame, col, replacements, n) ==
    IF n > Len(replacements) THEN DataFrame
    ELSE ReplaceEntries(
             [r \in 1..Len(DataFrame) |->
                 [DataFrame[r] EXCEPT ![col] = str_replace(@, replacements[n])]],
             col, replacements, n + 1)

\* replace_terms that rewrites the title as entered along with the listed column.
replace_terms_and_raw(DataFrame, columns, replacements) ==
    ReplaceEntries(ReplaceEntries(DataFrame, Head(columns), replacements, 1),
                   "current_title", replacements, 1)

\* replace_terms: for every column of columns, every entry of replacements in order.
RECURSIVE replace_terms(_, _, _)
replace_terms(DataFrame, columns, replacements) ==
    IF columns = <<>> THEN DataFrame
    ELSE replace_terms(ReplaceEntries(DataFrame, Head(columns), replacements, 1),
                       Tail(columns), replacements)

\* DataFrame.dropna(subset=[col]).
dropna(DataFrame, col) == SelectSeq(DataFrame, LAMBDA row : ~row[col].na)

\* drop that takes the labels for positions in the table.
drop_positions(DataFrame, labels) ==
    LET kept == {r \in 1..Len(DataFrame) : r - 1 \notin labels}
        Nth(n) == CHOOSE r \in kept : Cardinality({q \in kept : q < r}) = n - 1
    IN  [n \in 1..Cardinality(kept) |-> DataFrame[Nth(n)]]

\* DataFrame.drop(labels): the rows whose index label is in labels are removed.
drop(DataFrame, labels) == SelectSeq(DataFrame, LAMBDA row : row.idx \notin labels)

\* DataFrame[mask].index: the labels of the rows where the boolean Series mask
\* is True.
IndexWhere(DataFrame, mask) ==
    {DataFrame[r].idx : r \in {q \in 1..Len(DataFrame) : mask[q]}}

\* A Series computed row by row: the value of every row, in the order of the rows.
RowNumbers(DataFrame) == 1..Len(DataFrame)

\* DataFrame.reindex(colunas, axis=1): the listed columns, a column that does
\* not exist yet filled with NaN; the index is kept.
reindex(DataFrame, colunas) ==
    [r \in 1..Len(DataFrame) |->
        [c \in colunas \cup {"idx"} |->
            IF c \in DOMAIN DataFrame[r] THEN DataFrame[r][c] ELSE NaN]]

\* DataFrame[col] = values: the column col added or overwritten with a Series
\* that has one value for every row.
assign(DataFrame, col, values) ==
    [r \in 1..Len(DataFrame) |->
        [c \in DOMAIN DataFrame[r] \cup {col} |->
            IF c = col THEN values[r] ELSE DataFrame[r][c]]]

\* The sentinel written with the capital it is entered with.
laid_off_as_entered == <<"L","a","i","d"," ","o","f","f"," ","3","/","1","6">>

\* Texts the code compares cells with.
laid_off == <<"l","a","i","d"," ","o","f","f"," ","3","/","1","6">>

year == <<"y","e","a","r">>

weekly == <<"w","e","e","k","l","y">>

hour == <<"h","o","u","r">>

\* The plausibility threshold of adjusted_salary.
MinSalary == 100

\* A number times a factor; NaN stays NaN.
Times(c, n) == IF c.na THEN NaN ELSE Cell(c.v * n)

\* adjust_salary with the weeks of the year left out of the hourly branch.
adjust_salary_hour_no_weeks(row) ==
    IF row.salary_type = Cell(year) THEN row.current_salary
    ELSE IF row.salary_type = Cell(weekly) THEN Times(row.current_salary, 52)
    ELSE IF row.salary_type = Cell(hour) THEN Times(row.current_salary, 40)
    ELSE Cell(0)

\* adjust_salary whose default branch passes the salary on.
adjust_salary_default_passes(row) ==
    IF row.salary_type = Cell(year) THEN row.current_salary
    ELSE IF row.salary_type = Cell(weekly) THEN Times(row.current_salary, 52)
    ELSE IF row.salary_type = Cell(hour) THEN Times(Times(row.current_salary, 40), 52)
    ELSE row.current_salary

\* adjust_salary(row).
adjust_salary(row) ==
    IF row.salary_type = Cell(year) THEN row.current_salary
    ELSE IF row.salary_type = Cell(weekly) THEN Times(row.current_salary, 52)
    ELSE IF row.salary_type = Cell(hour) THEN Times(Times(row.current_salary, 40), 52)
    ELSE Cell(0)

\* The threshold applied to the salary as entered.
below_threshold_raw(row) == ~row.current_salary.na /\ row.current_salary.v < MinSalary

\* adjusted_salary < 100: a comparison with NaN is False.
below_threshold(row) == ~row.adjusted_salary.na /\ row.adjusted_salary.v < MinSalary

\* software_engineer_group with the principal titles spelled "principle".
software_engineer_group_principle(row) ==
    LET title == row.software_engineer_group
    IN  IF \/ title = Cell(<<"a","s","s","o","c","i","a","t","e"," ","s","o","f","t","w","a","r","e"," ","e","n","g","i",
                  "n","e","e","r">>)
           \/ title = Cell(<<"a","s","s","o","c","i","a","t","e"," ","s","o","f","t","w","a","r","e"," ","e","n","g","i",
                  "n","e","e","r"," ","i","n"," ","t","e","s","t">>)
        THEN Cell(<<"1","_","s","e","_","e","n","t","r","y">>)
        ELSE IF \/ title = Cell(<<"s","o","f","t","w","a","r","e"," ","e","n","g","i","n","e","e","r">>)
                \/ title = Cell(<<"s","o","f","t","w","a","r","e"," ","e","n","g","i","n","e","e","r"," ","i","n"," ","t","e",
                  "s","t">>)
        THEN Cell(<<"2","_","s","e","_","m","i","d">>)
        ELSE IF \/ title = Cell(<<"s","e","n","i","o","r"," ","s","o","f","t","w","a","r","e"," ","e","n","g","i","n","e","e",
                  "r">>)
                \/ title = Cell(<<"s","e","n","i","o","r"," ","s","o","f","t","w","a","r","e"," ","e","n","g","i","n","e","e",
                  "r"," ","i","n"," ","t","e","s","t"," ","i">>)
                \/ title = Cell(<<"s","e","n","i","o","r"," ","s","o","f","t","w","a","r","e"," ","e","n","g","i","n","e","e",
                  "r"," ","i">>)
                \/ title = Cell(<<"s","e","n","i","o","r"," ","s","o","f","t","w","a","r","e"," ","e","n","g","i","n","e","e",
                  "r"," ","i","i">>)
        THEN Cell(<<"3","_","s","e","_","s","e","n","i","o","r">>)
        ELSE IF \/ title = Cell(<<"p","r","i","n","c","i","p","l","e"," ","s","o","f","t","w","a","r","e"," ","e","n","g","i",
                  "n","e","e","r"," ","i">>)
                \/ title = Cell(<<"p","r","i","n","c","i","p","l","e"," ","s","o","f","t","w","a","r","e"," ","e","n","g","i",
                  "n","e","e","r">>)
        THEN Cell(<<"4","_","s","e","_","p","r","i","n","c","i","p","a","l">>)
        ELSE Cell(<<"o","t","h","e","r","_","t","i","t","l","e">>)

\* software_engineer_group(row): the group of the title held in the column
\* software_engineer_group.
software_engineer_group(row) ==
    LET title == row.software_engineer_group
    IN  IF \/ title = Cell(<<"a","s","s","o","c","i","a","t","e"," ","s","o","f","t","w","a","r","e"," ","e","n","g","i",
                  "n","e","e","r">>)
           \/ title = Cell(<<"a","s","s","o","c","i","a","t","e"," ","s","o","f","t","w","a","r","e"," ","e","n","g","i",
                  "n","e","e","r"," ","i","n"," ","t","e","s","t">>)
        THEN Cell(<<"1","_","s","e","_","e","n","t","r","y">>)
        ELSE IF \/ title = Cell(<<"s","o","f","t","w","a","r","e"," ","e","n","g","i","n","e","e","r">>)
                \/ title = Cell(<<"s","o","f","t","w","a","r","e"," ","e","n","g","i","n","e","e","r"," ","i","n"," ","t","e",
                  "s","t">>)
        THEN Cell(<<"2","_","s","e","_","m","i","d">>)
        ELSE IF \/ title = Cell(<<"s","e","n","i","o","r"," ","s","o","f","t","w","a","r","e"," ","e","n","g","i","n","e","e",
                  "r">>)
                \/ title = Cell(<<"s","e","n","i","o","r"," ","s","o","f","t","w","a","r","e"," ","e","n","g","i","n","e","e",
                  "r"," ","i","n"," ","t","e","s","t"," ","i">>)
                \/ title = Cell(<<"s","e","n","i","o","r"," ","s","o","f","t","w","a","r","e"," ","e","n","g","i","n","e","e",
                  "r"," ","i">>)
                \/ title = Cell(<<"s","e","n","i","o","r"," ","s","o","f","t","w","a","r","e"," ","e","n","g","i","n","e","e",
                  "r"," ","i","i">>)
        THEN Cell(<<"3","_","s","e","_","s","e","n","i","o","r">>)
        ELSE IF \/ title = Cell(<<"p","r","i","n","c","i","p","a","l"," ","s","o","f","t","w","a","r","e"," ","e","n","g","i",
                  "n","e","e","r"," ","i">>)
                \/ title = Cell(<<"p","r","i","n","c","i","p","a","l"," ","s","o","f","t","w","a","r","e"," ","e","n","g","i",
                  "n","e","e","r">>)
        THEN Cell(<<"4","_","s","e","_","p","r","i","n","c","i","p","a","l">>)
        ELSE Cell(<<"o","t","h","e","r","_","t","i","t","l","e">>)

\* The three column lists named colunas, in the order the code sets them.
colunas_title ==
    {"timestamp", "status", "current_title", "adjusted_title", "current_salary",
     "salary_type", "percent_incr", "other_info", "location", "performance_rating"}

colunas_salary ==
    {"timestamp", "status", "current_title", "adjusted_title", "current_salary",
     "adjusted_salary", "salary_type", "percent_incr", "other_info", "location",
     "performance_rating"}

colunas_group ==
    {"timestamp", "status", "current_title", "adjusted_title", "software_engineer_group",
     "current_salary", "adjusted_salary", "salary_type", "percent_incr", "other_info",
     "location", "performance_rating"}

(***************************************************************************)
(* The statements of the pipeline, one action each.  pc names the          *)
(* statement that runs next.                                               *)
(***************************************************************************)

\* df_blizzard_salary_act = df_blizzard_salary.copy()
Copy ==
    /\ pc = "copy"
    /\ df_blizzard_salary_act' = df_blizzard_salary
    /\ pc' = "dropna_salary"
    /\ UNCHANGED <<df_blizzard_salary, df_blizzard_salary_vf>>

\* df_blizzard_salary_act = df_blizzard_salary_act.dropna(subset=['current_salary'])
DropNaSalary ==
    /\ pc = "dropna_salary"
    /\ df_blizzard_salary_act' = dropna(df_blizzard_salary_act, "current_salary")
    /\ pc' = "dropna_title"
    /\ UNCHANGED <<df_blizzard_salary, df_blizzard_salary_vf>>

\* df_blizzard_salary_act = df_blizzard_salary_act.dropna(subset=['current_title'])
DropNaTitle ==
    /\ pc = "dropna_title"
    /\ df_blizzard_salary_act' = dropna(df_blizzard_salary_act, "current_title")
    /\ pc' = "lower_title"
    /\ UNCHANGED <<df_blizzard_salary, df_blizzard_salary_vf>>

\* df_blizzard_salary_act['adjusted_title'] = ...['current_title'].str.lower()
LowerTitle ==
    /\ pc = "lower_title"
    /\ df_blizzard_salary_act' =
           assign(df_blizzard_salary_act, "adjusted_title",
                  [r \in RowNumbers(df_blizzard_salary_act) |->
                      str_lower(df_blizzard_salary_act[r].current_title)])
    /\ pc' = "reindex_title"
    /\ UNCHANGED <<df_blizzard_salary, df_blizzard_salary_vf>>

\* df_blizzard_salary_act = df_blizzard_salary_act.reindex(colunas, axis=1)
ReindexTitle ==
    /\ pc = "reindex_title"
    /\ df_blizzard_salary_act' = reindex(df_blizzard_salary_act, colunas_title)
    /\ pc' = "replace_title"
    /\ UNCHANGED <<df_blizzard_salary, df_blizzard_salary_vf>>

\* replace_terms(df_blizzard_salary_act, ['adjusted_title'], replacements_title)
ReplaceTitle ==
    /\ pc = "replace_title"
    /\ df_blizzard_salary_act' =
           replace_terms(df_blizzard_salary_act, <<"adjusted_title">>, replacements_title)
    /\ pc' = "lower_location"
    /\ UNCHANGED <<df_blizzard_salary, df_blizzard_salary_vf>>

\* df_blizzard_salary_act['location'] = ...['location'].str.lower()
LowerLocation ==
    /\ pc = "lower_location"
    /\ df_blizzard_salary_act' =
           assign(df_blizzard_salary_act, "location",
                  [r \in RowNumbers(df_blizzard_salary_act) |->
                      str_lower(df_blizzard_salary_act[r].location)])
    /\ pc' = "drop_location"
    /\ UNCHANGED <<df_blizzard_salary, df_blizzard_salary_vf>>

\* df_blizzard_salary_act = df_blizzard_salary_act.drop(
\*     df_blizzard_salary_act[df_blizzard_salary_act['location'] == 'laid off 3/16'].index)
DropLocation ==
    /\ pc = "drop_location"
    /\ df_blizzard_salary_act' =
           drop(df_blizzard_salary_act,
                IndexWhere(df_blizzard_salary_act,
                           [r \in RowNumbers(df_blizzard_salary_act) |->
                               df_blizzard_salary_act[r].location = Cell(laid_off)]))
    /\ pc' = "replace_location"
    /\ UNCHANGED <<df_blizzard_salary, df_blizzard_salary_vf>>

\* replace_terms(df_blizzard_salary_act, ['location'], replacements_location)
ReplaceLocation ==
    /\ pc = "replace_location"
    /\ df_blizzard_salary_act' =
           replace_terms(df_blizzard_salary_act, <<"location">>, replacements_location)
    /\ pc' = "lower_rating"
    /\ UNCHANGED <<df_blizzard_salary, df_blizzard_salary_vf>>

\* df_blizzard_salary_act['performance_rating'] = ...['performance_rating'].str.lower()
LowerRating ==
    /\ pc = "lower_rating"
    /\ df_blizzard_salary_act' =
           assign(df_blizzard_salary_act, "performance_rating",
                  [r \in RowNumbers(df_blizzard_salary_act) |->
                      str_lower(df_blizzard_salary_act[r].performance_rating)])
    /\ pc' = "replace_rating"
    /\ UNCHANGED <<df_blizzard_salary, df_blizzard_salary_vf>>

\* replace_terms(df_blizzard_salary_act, ['performance_rating'],
\*               replacements_performance_rating)
ReplaceRating ==
    /\ pc = "replace_rating"
    /\ df_blizzard_salary_act' =
           replace_terms(df_blizzard_salary_act, <<"performance_rating">>,
                         replacements_performance_rating)
    /\ pc' = "new_adjusted_salary"
    /\ UNCHANGED <<df_blizzard_salary, df_blizzard_salary_vf>>

\* df_blizzard_salary_act['adjusted_salary'] = df_blizzard_salary_act['current_salary']
NewAdjustedSalary ==
    /\ pc = "new_adjusted_salary"
    /\ df_blizzard_salary_act' =
           assign(df_blizzard_salary_act, "adjusted_salary",
                  [r \in RowNumbers(df_blizzard_salary_act) |->
                      df_blizzard_salary_act[r].current_salary])
    /\ pc' = "reindex_salary"
    /\ UNCHANGED <<df_blizzard_salary, df_blizzard_salary_vf>>

\* df_blizzard_salary_act = df_blizzard_salary_act.reindex(colunas, axis=1)
ReindexSalary ==
    /\ pc = "reindex_salary"
    /\ df_blizzard_salary_act' = reindex(df_blizzard_salary_act, colunas_salary)
    /\ pc' = "apply_adjust_salary"
    /\ UNCHANGED <<df_blizzard_salary, df_blizzard_salary_vf>>

\* df_blizzard_salary_act['adjusted_salary'] = df_blizzard_salary_act.apply(adjust_salary, axis=1)
ApplyAdjustSalary ==
    /\ pc = "apply_adjust_salary"
    /\ df_blizzard_salary_act' =
           assign(df_blizzard_salary_act, "adjusted_salary",
                  [r \in RowNumbers(df_blizzard_salary_act) |->
                      adjust_salary(df_blizzard_salary_act[r])])
    /\ pc' = "drop_low_salary"
    /\ UNCHANGED <<df_blizzard_salary, df_blizzard_salary_vf>>

\* df_blizzard_salary_act = df_blizzard_salary_act.drop(
\*     df_blizzard_salary_act[(df_blizzard_salary_act['adjusted_salary'] < 100)].index)
DropLowSalary ==
    /\ pc = "drop_low_salary"
    /\ df_blizzard_salary_act' =
           drop(df_blizzard_salary_act,
                IndexWhere(df_blizzard_salary_act,
                           [r \in RowNumbers(df_blizzard_salary_act) |->
                               below_threshold(df_blizzard_salary_act[r])]))
    /\ pc' = "dropna_adjusted_salary"
    /\ UNCHANGED <<df_blizzard_salary, df_blizzard_salary_vf>>

\* df_blizzard_salary_act = df_blizzard_salary_act.dropna(subset=['adjusted_salary'])
DropNaAdjustedSalary ==
    /\ pc = "dropna_adjusted_salary"
    /\ df_blizzard_salary_act' = dropna(df_blizzard_salary_act, "adjusted_salary")
    /\ pc' = "assign_vf"
    /\ UNCHANGED <<df_blizzard_salary, df_blizzard_salary_vf>>

\* df_blizzard_salary_vf = df_blizzard_salary_act: both names now denote one table.
AssignVf ==
    /\ pc = "assign_vf"
    /\ df_blizzard_salary_vf' = df_blizzard_salary_act
    /\ pc' = "new_group"
    /\ UNCHANGED <<df_blizzard_salary, df_blizzard_salary_act>>

\* df_blizzard_salary_vf['software_engineer_group'] = df_blizzard_salary_vf['adjusted_title']:
\* the column is set in the one table that both names denote.
NewGroup ==
    /\ pc = "new_group"
    /\ df_blizzard_salary_vf' =
           assign(df_blizzard_salary_vf, "software_engineer_group",
                  [r \in RowNumbers(df_blizzard_salary_vf) |->
                      df_blizzard_salary_vf[r].adjusted_title])
    /\ df_blizzard_salary_act' = df_blizzard_salary_vf'
    /\ pc' = "reindex_group"
    /\ UNCHANGED df_blizzard_salary

\* df_blizzard_salary_vf = df_blizzard_salary_vf.reindex(colunas, axis=1): a new table.
ReindexGroup ==
    /\ pc = "reindex_group"
    /\ df_blizzard_salary_vf' = reindex(df_blizzard_salary_vf, colunas_group)
    /\ pc' = "apply_group"
    /\ UNCHANGED <<df_blizzard_salary, df_blizzard_salary_act>>

\* df_blizzard_salary_vf['software_engineer_group'] =
\*     df_blizzard_salary_vf.apply(software_engineer_group, axis=1)
ApplyGroup ==
    /\ pc = "apply_group"
    /\ df_blizzard_salary_vf' =
           assign(df_blizzard_salary_vf, "software_engineer_group",
                  [r \in RowNumbers(df_blizzard_salary_vf) |->
                      software_engineer_group(df_blizzard_salary_vf[r])])
    /\ pc' = "done"
    /\ UNCHANGED <<df_blizzard_salary, df_blizzard_salary_act>>

Next ==
    \/ Copy
    \/ DropNaSalary
    \/ DropNaTitle
    \/ LowerTitle
    \/ ReindexTitle
    \/ ReplaceTitle
    \/ LowerLocation
    \/ DropLocation
    \/ ReplaceLocation
    \/ LowerRating
    \/ ReplaceRating
    \/ NewAdjustedSalary
    \/ ReindexSalary
    \/ ApplyAdjustSalary
    \/ DropLowSalary
    \/ DropNaAdjustedSalary
    \/ AssignVf
    \/ NewGroup
    \/ ReindexGroup
    \/ ApplyGroup

(***************************************************************************)
(* The tables the pipeline is run on.                                      *)
(***************************************************************************)

\* The most rows of a table built from MixRows.
MaxRows == 2

\* The most pieces a composed text is made of.
MaxPieces == 2

\* The texts made of 1 to n pieces of P, one after the other.
RECURSIVE TextsOf(_, _)
TextsOf(P, n) ==
    IF n <= 1 THEN P
    ELSE LET shorter == TextsOf(P, n - 1)
         IN  shorter \cup {a \o b : a \in shorter, b \in P}

\* Titles as entered: titles the notebook and its rules name, and texts composed
\* of the words, digits and separators the title rules look for.
KnownTitles ==
    {<<"S","e","n","i","o","r"," ","1">>,
     <<"X">>,
     <<"C","a","n","'","t"," ","s","a","y"," ","(","l","o","s","s"," ","o","f"," ","a","n","o","n",
       "i","m","i","t","y",")">>,
     <<"C","h","o","o","s","e"," ","n","o","t"," ","t","o"," ","d","i","s","c","l","o","s","e">>,
     <<"p","o","s","i","t","i","o","n"," ","i","n"," ","I","I"," ","t","i","e","r">>,
     <<"S","r","."," ","S","o","f","t","w","a","r","e"," ","E","n","g","i","n","e","e","r">>,
     <<"S","o","f","t","w","a","r","e"," ","E","n","g","i","n","e","e","r"," ","2">>,
     <<"P","r","i","n","c","i","p","l","e"," ","S","o","f","t","w","a","r","e"," ","E","n","g","i",
       "n","e","e","r">>,
     <<"s","e","n","i","o","r"," ","s","o","f","t","w","a","r","e"," ","e","g","r"," ","i",".","-">>,
     <<"A","s","s","o","c","i","a","t","e"," ","P","M"," ","(","m","y"," ","r","a","n","g","e"," ",
       "i","s"," ","o","n"," ","t","h","e"," ","s","a","m","e"," ","s","c","a","l","e"," ","a",
       "s"," ","P","M",","," ","b","u","t"," ","n","o","t"," ","m","y"," ","a","c","t","u","a",
       "l"," ","t","i","t","l","e",")">>,
     <<"3","D"," ","A","r","t","i","s","t","(","C","h","a","r","a","c","t","e","r",")">>,
     <<"U","I"," ","/","U","X"," ","D","e","s","i","g","n","e","r">>,
     <<"A","s","s","o","c","i","a","t","e"," ","S","o","f","t","w","a","r","e"," ","D","e","v","e",
       "l","o","p","m","e","n","t"," ","E","n","g","i","n","e","e","r"," ","i","n"," ","T","e",
       "s","t">>,
     <<"Q","A"," ","L","e","a","d">>,
     <<"a","s","s","o","c","i","a","t","e"," ","s","o","f","t","w","a","r","e"," ","e","n","g","i",
       "n","e","e","r">>,
     <<"a","s","s","o","c","i","a","t","e"," ","s","o","f","t","w","a","r","e"," ","e","n","g","i",
       "n","e","e","r"," ","i","n"," ","t","e","s","t">>,
     <<"s","o","f","t","w","a","r","e"," ","e","n","g","i","n","e","e","r">>,
     <<"s","o","f","t","w","a","r","e"," ","e","n","g","i","n","e","e","r"," ","i","n"," ","t","e",
       "s","t">>,
     <<"s","e","n","i","o","r"," ","s","o","f","t","w","a","r","e"," ","e","n","g","i","n","e","e",
       "r">>,
     <<"s","e","n","i","o","r"," ","s","o","f","t","w","a","r","e"," ","e","n","g","i","n","e","e",
       "r"," ","i","n"," ","t","e","s","t"," ","i">>,
     <<"s","e","n","i","o","r"," ","s","o","f","t","w","a","r","e"," ","e","n","g","i","n","e","e",
       "r"," ","i">>,
     <<"s","e","n","i","o","r"," ","s","o","f","t","w","a","r","e"," ","e","n","g","i","n","e","e",
       "r"," ","i","i">>,
     <<"p","r","i","n","c","i","p","a","l"," ","s","o","f","t","w","a","r","e"," ","e","n","g","i",
       "n","e","e","r"," ","i">>,
     <<"p","r","i","n","c","i","p","a","l"," ","s","o","f","t","w","a","r","e"," ","e","n","g","i",
       "n","e","e","r">>,
     <<"P","r","i","n","c","i","p","a","l"," ","S","o","f","t","w","a","r","e"," ","E","n","g","i",
       "n","e","e","r">>,
     <<"G","a","m","e"," ","M","a","s","t","e","r">>}

TitlePieces ==
    {<<"s","e","n","i","o","r">>,
     <<"s","r",".">>,
     <<"s","e","n","o","r">>,
     <<"x">>,
     <<"q","a">>,
     <<"1">>,
     <<"2">>,
     <<"i">>,
     <<" ">>,
     <<"e">>,
     <<"\n">>,
     <<"p","r","i","n","c","i","p","l">>,
     <<"a">>,
     <<".">>,
     <<"S">>}

TitleTexts == KnownTitles \cup TextsOf(TitlePieces, MaxPieces)

KnownLocations ==
    {<<"L","a","i","d"," ","o","f","f"," ","3","/","1","6">>,
     <<"l","a","i","d"," ","o","f","f"," ","3","/","1","6">>,
     <<"l","a","i","d"," ","o","f","f"," ","3","/","1","6"," ">>,
     <<"L","o","s"," ","A","n","g","e","l","e","s"," ","C","e","n","t","e","r"," ","S","t","u","d",
       "i","o","s">>,
     <<"W","o","r","k"," ","F","r","o","m"," ","H","o","m","e"," ","-"," ","V","i","r","g","i","n",
       "i","a">>,
     <<"I","r","v","i","n","e">>,
     <<"A","u","s","t","i","n">>}

LocationPieces ==
    {<<"l","o","s"," ","a","n","g","e","l","e","s"," ","c","e","n","t","e","r"," ","s","t","u","d",
       "i","o","s">>,
     <<"w","o","r","k"," ","f","r","o","m"," ","h","o","m","e"," ","-"," ","v","i","r","g","i","n",
       "i">>,
     <<"a">>,
     <<" ">>,
     <<"\n">>,
     <<"L">>}

LocationTexts == KnownLocations \cup TextsOf(LocationPieces, MaxPieces)

KnownRatings ==
    {<<"T","o","p"," ","P","e","r","f","o","r","m","e","r">>,
     <<"H","i","g","h">>,
     <<"S","u","c","c","e","s","s","f","u","l">>,
     <<"D","e","v","e","l","o","p","i","n","g">>,
     <<"M","e","e","t","s"," ","e","x","p","e","c","t","a","t","i","o","n","s">>,
     <<"h","i","g","h"," ","t","o","p">>}

RatingPieces ==
    {<<"d","e","v","e","l","o","p","i","n","g">>,
     <<"s","u","c","c","e","s","s","f","u","l">>,
     <<"h","i","g","h">>,
     <<"t","o","p">>,
     <<"T","o","p">>,
     <<"s">>,
     <<" ">>,
     <<"\n">>,
     <<"o","k">>}

RatingTexts == KnownRatings \cup TextsOf(RatingPieces, MaxPieces)

\* Salaries (whole dollars) and salary types as entered.
SalaryValues == {1, 2, 30, 50, 99, 100, 1625, 120000}

SalaryTypes ==
    {Cell(year), Cell(weekly), Cell(hour), NaN,
     Cell(<<"w","e","e","k">>), Cell(<<"Y","e","a","r">>), Cell(<<"m","o","n","t","h">>)}

\* One line of the file, before the index is set.
Line(title, salary, type, location, rating, incr) ==
    [timestamp |-> Cell(<<"7","/","3","1","/","2","0","2","0">>),
     status |-> Cell(<<"F","u","l","l"," ","T","i","m","e"," ","E","m","p","l","o","y","e","e">>),
     current_title |-> title, current_salary |-> salary, salary_type |-> type,
     percent_incr |-> incr, other_info |-> NaN,
     location |-> location, performance_rating |-> rating]

TypicalTitle == Cell(<<"G","a","m","e"," ","M","a","s","t","e","r">>)

TypicalLocation == Cell(<<"I","r","v","i","n","e">>)

TypicalRating == Cell(<<"T","o","p">>)

\* Lines that differ from a typical line in one field.
TitleLines ==
    {Line(Cell(x), Cell(120000), Cell(year), TypicalLocation, TypicalRating, NaN) :
        x \in TitleTexts}

LocationLines ==
    {Line(TypicalTitle, Cell(120000), Cell(year), l, TypicalRating, NaN) :
        l \in {Cell(x) : x \in LocationTexts} \cup {NaN}}

RatingLines ==
    {Line(TypicalTitle, Cell(120000), Cell(year), TypicalLocation, r, NaN) :
        r \in {Cell(x) : x \in RatingTexts} \cup {NaN}}

SalaryLines ==
    {Line(TypicalTitle, Cell(s), ty, TypicalLocation, TypicalRating, Cell(3)) :
        s \in SalaryValues, ty \in SalaryTypes}

\* Lines that meet each reason for a row to be dropped, and lines that stay.
MixRows ==
    {Line(TypicalTitle, Cell(120000), Cell(year), TypicalLocation, TypicalRating, Cell(3)),
     [Line(Cell(<<"S","r","."," ","S","o","f","t","w","a","r","e"," ","E","n","g","i","n","e","e","r">>),
           Cell(30), Cell(hour), Cell(<<"A","u","s","t","i","n">>), NaN, NaN)
        EXCEPT !.status = Cell(<<"C","o","n","t","r","a","c","t","o","r">>),
               !.other_info = Cell(<<"S","r","."," ","Q","A"," ","1"," ","T","o","p">>)],
     Line(TypicalTitle, NaN, Cell(year), TypicalLocation, TypicalRating, NaN),
     Line(NaN, Cell(120000), Cell(year), TypicalLocation, TypicalRating, NaN),
     Line(TypicalTitle, Cell(120000), Cell(year), Cell(<<"L","a","i","d"," ","o","f","f"," ","3","/","1","6">>),
          TypicalRating, NaN),
     Line(TypicalTitle, Cell(50), Cell(year), NaN, Cell(<<"H","i","g","h">>), Cell(0)),
     Line(Cell(<<"X">>), Cell(1625), Cell(<<"w","e","e","k">>), TypicalLocation, TypicalRating, NaN),
     Line(TypicalTitle, Cell(100), Cell(year), Cell(<<"A","u","s","t","i","n">>),
          Cell(<<"M","e","e","t","s"," ","e","x","p","e","c","t","a","t","i","o","n","s">>), NaN)}

\* The sequences of 1 to n elements of S.
RECURSIVE SeqsUpTo(_, _)
SeqsUpTo(S, n) ==
    IF n <= 1 THEN {<<x>> : x \in S}
    ELSE LET shorter == SeqsUpTo(S, n - 1)
         IN  shorter \cup {Append(t, x) : t \in shorter, x \in S}

\* pd.read_csv: one row per line, labelled 0, 1, ... in the order of the file.
read_csv(lines) ==
    [r \in 1..Len(lines) |->
        [c \in DOMAIN lines[r] \cup {"idx"} |->
            IF c = "idx" THEN r - 1 ELSE lines[r][c]]]

Files ==
    {<<l>> : l \in TitleLines \cup LocationLines \cup RatingLines \cup SalaryLines}
        \cup SeqsUpTo(MixRows, MaxRows)

\* The state when the file has been read; the tables of the later statements
\* do not exist yet.
Init ==
    /\ pc = "copy"
    /\ df_blizzard_salary \in {read_csv(f) : f \in Files}
    /\ df_blizzard_salary_act = <<>>
    /\ df_blizzard_salary_vf = <<>>

Spec == Init /\ [][Next]_vars

(***************************************************************************)
(* What the properties below speak of.                                     *)
(***************************************************************************)

\* The statements in the order they run.
Statements ==
    <<"copy", "dropna_salary", "dropna_title", "lower_title", "reindex_title",
      "replace_title", "lower_location", "drop_location", "replace_location",
      "lower_rating", "replace_rating", "new_adjusted_salary", "reindex_salary",
      "apply_adjust_salary", "drop_low_salary", "dropna_adjusted_salary",
      "assign_vf", "new_group", "reindex_group", "apply_group", "done">>

Position(l) == CHOOSE i \in 1..Len(Statements) : Statements[i] = l

\* Statement l has run.
Ran(l) == Position(pc) > Position(l)

\* The rows of a table.
Rows(DataFrame) == {DataFrame[r] : r \in 1..Len(DataFrame)}

\* The row of the loaded table that a row of a later table comes from.
RawOf(row) == df_blizzard_salary[row.idx + 1]

\* The entries of a substitution dictionary applied to one text, from the n-th on.
RECURSIVE ApplyFrom(_, _, _)
ApplyFrom(replacements, s, n) ==
    IF n > Len(replacements) THEN s
    ELSE ApplyFrom(replacements,
                   re_sub(replacements[n].pat, replacements[n].repl, s), n + 1)

\* Whether text s holds text w somewhere.
Contains(s, w) == \E i \in 1..(Len(s) - Len(w) + 1) : SubSeq(s, i, i + Len(w) - 1) = w

\* Whether no entry of a substitution dictionary matches anywhere in s.
NoRuleMatches(replacements, s) ==
    \A n \in 1..Len(replacements) : ~re_search(replacements[n].pat, s)

OneLine(s) == \A i \in 1..Len(s) : s[i] # "\n"

\* The rating keywords and the label of each.
RatingKeywords ==
    <<<<"d","e","v","e","l","o","p","i","n","g">>, <<"s","u","c","c","e","s","s","f","u","l">>,
      <<"h","i","g","h">>, <<"t","o","p">>>>

RatingLabels ==
    <<<<"1","-","d","e","v","e","l","o","p","i","n","g">>,
      <<"2","-","s","u","c","c","e","s","s","f","u","l">>,
      <<"3","-","h","i","g","h">>, <<"4","-","t","o","p">>>>

FourRatings == {RatingLabels[k] : k \in 1..4}

KeywordsIn(s) == {k \in 1..4 : Contains(s, RatingKeywords[k])}

\* The salary type of weekly pay as the data dictionary of the notebook names it.
week == <<"w","e","e","k">>

(***************************************************************************)
(* Salary Standardizer.                                                    *)
(***************************************************************************)

\* C1: once adjust_salary has been applied, every row with salary_type "year"
\* has adjusted_salary equal to current_salary, and every row with salary_type
\* "hour" has adjusted_salary equal to current_salary * 40 * 52 = current_salary * 2080.
C1_YearAndHour ==
    Ran("apply_adjust_salary") =>
        \A row \in Rows(df_blizzard_salary_act) :
            /\ RawOf(row).salary_type = Cell(year) =>
                   row.adjusted_salary = RawOf(row).current_salary
            /\ RawOf(row).salary_type = Cell(hour) =>
                   /\ row.adjusted_salary = Cell(RawOf(row).current_salary.v * 40 * 52)
                   /\ row.adjusted_salary = Cell(RawOf(row).current_salary.v * 2080)

\* A yearly 120000 and an hourly 30 stand standardized side by side.
C1_Witness ==
    /\ pc = "drop_low_salary"
    /\ \E a, b \in Rows(df_blizzard_salary_act) :
          /\ a.salary_type = Cell(year) /\ a.current_salary = Cell(120000)
          /\ a.adjusted_salary = Cell(120000)
          /\ b.salary_type = Cell(hour) /\ b.current_salary = Cell(30)
          /\ b.adjusted_salary = Cell(62400)

\* C2: once adjust_salary has been applied, every row with salary_type "week"
\* has adjusted_salary equal to current_salary * 52.
C2_Week ==
    Ran("apply_adjust_salary") =>
        \A row \in Rows(df_blizzard_salary_act) :
            RawOf(row).salary_type = Cell(week) =>
                row.adjusted_salary = Cell(RawOf(row).current_salary.v * 52)

\* C3: a row with salary_type "weekly" gets adjusted_salary 0 from the default
\* branch and is not in the output.
C3_WeeklyDefault ==
    /\ Ran("apply_adjust_salary") =>
           \A row \in Rows(df_blizzard_salary_act) :
               RawOf(row).salary_type = Cell(weekly) => row.adjusted_salary = Cell(0)
    /\ Ran("assign_vf") =>
           \A row \in Rows(df_blizzard_salary_vf) : RawOf(row).salary_type # Cell(weekly)

\* C4: every row of the output table df_blizzard_salary_vf has an
\* adjusted_salary that is present and at least 100.
C4_Threshold ==
    Ran("assign_vf") =>
        \A row \in Rows(df_blizzard_salary_vf) :
            ~row.adjusted_salary.na /\ row.adjusted_salary.v >= 100

\* Of a yearly 50 and a yearly 100 read from the file, the output holds the 100 only.
C4_Witness ==
    /\ pc = "done"
    /\ \E r \in Rows(df_blizzard_salary) :
          r.salary_type = Cell(year) /\ r.current_salary = Cell(50)
    /\ Len(df_blizzard_salary_vf) = 1
    /\ df_blizzard_salary_vf[1].adjusted_salary = Cell(100)

\* Whether adjust_salary has a branch for salary type c.
Recognized(c) == c \in {Cell(year), Cell(weekly), Cell(hour)}

\* C5: a row whose salary_type is missing or is none of the values adjust_salary
\* matches gets the value 0 as its adjusted_salary (adjust_salary has a value for
\* it, not an error) and is not in the output, whatever its current_salary.
C5_Unrecognized ==
    /\ Ran("apply_adjust_salary") =>
           \A row \in Rows(df_blizzard_salary_act) :
               ~Recognized(RawOf(row).salary_type) => row.adjusted_salary = Cell(0)
    /\ Ran("assign_vf") =>
           \A row \in Rows(df_blizzard_salary_vf) : Recognized(RawOf(row).salary_type)

\* A salary of 120000 with the missing salary_type has left the table.
C5_Witness ==
    /\ pc = "done"
    /\ Len(df_blizzard_salary) = 1
    /\ df_blizzard_salary[1].salary_type = NaN
    /\ df_blizzard_salary[1].current_salary = Cell(120000)
    /\ df_blizzard_salary_vf = <<>>

(***************************************************************************)
(* The normalizers of title, location and performance rating.              *)
(***************************************************************************)

\* C6: the title rules applied to a title they have already been applied to
\* leave it as it is: normalize(normalize(x)) = normalize(x).
C6_Idempotent ==
    Ran("replace_title") =>
        \A row \in Rows(df_blizzard_salary_act) :
            ApplyFrom(replacements_title, row.adjusted_title.v, 1) = row.adjusted_title.v

\* The step of replace_terms on column col with dictionary replacements, for
\* the texts that none of its expressions matches: every row is kept, and the
\* derived column holds the lowercased raw text of column raw.
Fallback(label, col, raw, replacements) ==
    pc = label =>
        /\ Len(df_blizzard_salary_act') = Len(df_blizzard_salary_act)
        /\ \A r \in 1..Len(df_blizzard_salary_act) :
              LET text == RawOf(df_blizzard_salary_act[r])[raw]
              IN  /\ df_blizzard_salary_act'[r].idx = df_blizzard_salary_act[r].idx
                  /\ (~text.na /\ NoRuleMatches(replacements, Lower(text.v))) =>
                         df_blizzard_salary_act'[r][col] = Cell(Lower(text.v))

\* C7: for each of the three normalizers, a text that none of its expressions
\* matches comes out as the lowercased raw text, and the normalizer drops no row.
C7_IdentityFallback ==
    [][/\ Fallback("replace_title", "adjusted_title", "current_title", replacements_title)
       /\ Fallback("replace_location", "location", "location", replacements_location)
       /\ Fallback("replace_rating", "performance_rating", "performance_rating",
                   replacements_performance_rating)]_vars

\* 'Game Master', 'Austin' and 'Meets expectations' have come through the three
\* normalizers lowercased and otherwise as entered.
C7_Witness ==
    /\ pc = "new_adjusted_salary"
    /\ \E row \in Rows(df_blizzard_salary_act) :
          /\ RawOf(row).current_title = Cell(<<"G","a","m","e"," ","M","a","s","t","e","r">>)
          /\ row.adjusted_title = Cell(<<"g","a","m","e"," ","m","a","s","t","e","r">>)
          /\ RawOf(row).location = Cell(<<"A","u","s","t","i","n">>)
          /\ row.location = Cell(<<"a","u","s","t","i","n">>)
          /\ RawOf(row).performance_rating =
                 Cell(<<"M","e","e","t","s"," ","e","x","p","e","c","t","a","t","i","o","n","s">>)
          /\ row.performance_rating =
                 Cell(<<"m","e","e","t","s"," ","e","x","p","e","c","t","a","t","i","o","n","s">>)
          /\ NoRuleMatches(replacements_title, row.adjusted_title.v)
          /\ NoRuleMatches(replacements_location, row.location.v)
          /\ NoRuleMatches(replacements_performance_rating, row.performance_rating.v)

\* C8 as stated: in every output row whose performance_rating is present, it
\* is one of the four values 1-developing, 2-successful, 3-high, 4-top.
C8_FourValues ==
    Ran("assign_vf") =>
        \A row \in Rows(df_blizzard_salary_vf) :
            ~row.performance_rating.na => row.performance_rating.v \in FourRatings

\* C8 amended: in every output row whose performance_rating is present and is
\* entered on one line, the normalized rating is one of the four values, or it
\* is the lowercased raw rating and holds none of the four keywords.
C8_FourValuesOrUnmatched ==
    Ran("assign_vf") =>
        \A row \in Rows(df_blizzard_salary_vf) :
            LET raw == RawOf(row).performance_rating
            IN  (~row.performance_rating.na /\ ~raw.na /\ OneLine(raw.v)) =>
                    \/ row.performance_rating.v \in FourRatings
                    \/ /\ KeywordsIn(Lower(raw.v)) = {}
                       /\ row.performance_rating.v = Lower(raw.v)

\* The output holds a row rated 4-top from 'Top' and a row whose rating
\* 'Meets expectations' has no keyword and is kept in lowercase.
C8_Witness ==
    /\ pc = "done"
    /\ \E a, b \in Rows(df_blizzard_salary_vf) :
          /\ RawOf(a).performance_rating = Cell(<<"T","o","p">>)
          /\ a.performance_rating = Cell(RatingLabels[4])
          /\ KeywordsIn(Lower(RawOf(b).performance_rating.v)) = {}
          /\ b.performance_rating =
                 Cell(<<"m","e","e","t","s"," ","e","x","p","e","c","t","a","t","i","o","n","s">>)

\* C9 as stated: when the rating rules have run, a rating whose lowercased text
\* holds exactly one of the four keywords has become the label of that keyword,
\* in place of the whole text.
C9_KeywordLabel ==
    pc = "new_adjusted_salary" =>
        \A row \in Rows(df_blizzard_salary_act) :
            LET raw == RawOf(row).performance_rating
            IN  ~raw.na =>
                    \A k \in 1..4 :
                        KeywordsIn(Lower(raw.v)) = {k} =>
                            row.performance_rating = Cell(RatingLabels[k])

\* C9 amended: the same for a rating entered on one line (no line break).
C9_KeywordLabelOneLine ==
    pc = "new_adjusted_salary" =>
        \A row \in Rows(df_blizzard_salary_act) :
            LET raw == RawOf(row).performance_rating
            IN  (~raw.na /\ OneLine(raw.v)) =>
                    \A k \in 1..4 :
                        KeywordsIn(Lower(raw.v)) = {k} =>
                            row.performance_rating = Cell(RatingLabels[k])

\* 'Top Performer' has become '4-top'.
C9_Witness ==
    /\ pc = "new_adjusted_salary"
    /\ \E row \in Rows(df_blizzard_salary_act) :
          /\ RawOf(row).performance_rating = Cell(<<"T","o","p"," ","P","e","r","f","o","r","m","e","r">>)
          /\ row.performance_rating = Cell(<<"4","-","t","o","p">>)

\* The orders in which the four rating rules can be applied.
RuleOrders == {o \in [1..4 -> 1..4] : \A a, b \in 1..4 : o[a] = o[b] => a = b}

\* The rating rules applied to s in order o.
InOrder(o, s) ==
    ApplyFrom([n \in 1..4 |-> replacements_performance_rating[o[n]]], s, 1)

\* C10 as stated: when the rating rules have run, the normalized rating is what
\* the four rules give in whatever order they are applied.
C10_AnyOrder ==
    pc = "new_adjusted_salary" =>
        \A row \in Rows(df_blizzard_salary_act) :
            LET raw == RawOf(row).performance_rating
            IN  ~raw.na =>
                    \A o \in RuleOrders :
                        row.performance_rating.v = InOrder(o, Lower(raw.v))

\* C10 amended: the same for a rating whose lowercased text holds at most one
\* of the four keywords.
C10_AnyOrderOneKeyword ==
    pc = "new_adjusted_salary" =>
        \A row \in Rows(df_blizzard_salary_act) :
            LET raw == RawOf(row).performance_rating
            IN  (~raw.na /\ Cardinality(KeywordsIn(Lower(raw.v))) <= 1) =>
                    \A o \in RuleOrders :
                        row.performance_rating.v = InOrder(o, Lower(raw.v))

\* 'High' has become '3-high', as it does in every order of the rules.
C10_Witness ==
    /\ pc = "new_adjusted_salary"
    /\ \E row \in Rows(df_blizzard_salary_act) :
          /\ RawOf(row).performance_rating = Cell(<<"H","i","g","h">>)
          /\ row.performance_rating = Cell(RatingLabels[3])
          /\ \A o \in RuleOrders : InOrder(o, <<"h","i","g","h">>) = RatingLabels[3]

(***************************************************************************)
(* Rows dropped and rows kept.                                             *)
(***************************************************************************)

\* The location that marks a record as no longer employed.
Sentinel == <<"l","a","i","d"," ","o","f","f"," ","3","/","1","6">>

\* C11: from the location drop on, and so in the output table, there is no
\* record whose raw location is exactly "laid off 3/16": the whole record is
\* gone, not only its location.
C11_LocationDrop ==
    /\ Ran("drop_location") =>
           \A row \in Rows(df_blizzard_salary_act) : RawOf(row).location # Cell(Sentinel)
    /\ Ran("assign_vf") =>
           \A row \in Rows(df_blizzard_salary_vf) : RawOf(row).location # Cell(Sentinel)

\* A record located "laid off 3/16", with a title and a yearly salary of 120000
\* that pass every other condition, is not in the output.
C11_Witness ==
    /\ pc = "done"
    /\ Len(df_blizzard_salary) = 1
    /\ df_blizzard_salary[1].location = Cell(Sentinel)
    /\ df_blizzard_salary[1].current_title = TypicalTitle
    /\ df_blizzard_salary[1].current_salary = Cell(120000)
    /\ df_blizzard_salary[1].salary_type = Cell(year)
    /\ df_blizzard_salary_vf = <<>>

\* Whether a loaded record meets none of the drop conditions: salary and title
\* present, lowercased location other than the sentinel, and the salary
\* standardized from current_salary and salary_type present and at least 100.
Kept(raw) ==
    /\ ~raw.current_salary.na
    /\ ~raw.current_title.na
    /\ raw.location.na \/ Lower(raw.location.v) # Sentinel
    /\ ~adjust_salary(raw).na /\ adjust_salary(raw).v >= 100

\* C13: the output table is the loaded records that meet none of the drop
\* conditions, each once, in the order of the file, and nothing else.  A record
\* whose current_salary is below 100 and whose hourly pay annualized is at
\* least 100 is in the output.
C13_OnlyDropConditions ==
    Ran("assign_vf") =>
        LET kept == SelectSeq(df_blizzard_salary, Kept)
        IN  /\ Len(df_blizzard_salary_vf) = Len(kept)
            /\ \A r \in 1..Len(kept) :
                   /\ df_blizzard_salary_vf[r].idx = kept[r].idx
                   /\ df_blizzard_salary_vf[r].current_title = kept[r].current_title
                   /\ df_blizzard_salary_vf[r].current_salary = kept[r].current_salary
            /\ \A raw \in Rows(df_blizzard_salary) :
                   (/\ ~raw.current_title.na
                    /\ raw.location.na \/ Lower(raw.location.v) # Sentinel
                    /\ raw.salary_type = Cell(hour)
                    /\ ~raw.current_salary.na
                    /\ raw.current_salary.v < 100
                    /\ raw.current_salary.v * 2080 >= 100) =>
                       \E row \in Rows(df_blizzard_salary_vf) : row.idx = raw.idx

\* Of a record without salary and a record paid 30 an hour, in this order, the
\* output holds the second only, under its label 1 and annualized to 62400.
C13_Witness ==
    /\ pc = "done"
    /\ Len(df_blizzard_salary) = 2
    /\ df_blizzard_salary[1].current_salary = NaN
    /\ df_blizzard_salary[2].current_salary = Cell(30)
    /\ df_blizzard_salary[2].salary_type = Cell(hour)
    /\ Len(df_blizzard_salary_vf) = 1
    /\ df_blizzard_salary_vf[1].idx = 1
    /\ df_blizzard_salary_vf[1].current_salary = Cell(30)
    /\ df_blizzard_salary_vf[1].adjusted_salary = Cell(62400)

(***************************************************************************)
(* Titles.                                                                 *)
(***************************************************************************)

\* The title rules with the two level-digit rules rewriting a digit only
\* where it is a token of its own: \b1\b -> 'i' and \b2\b -> 'ii'.
BareDigitRules ==
    [replacements_title EXCEPT
        ![8] = Rule(<<"\\","b","1","\\","b">>, <<"i">>),
        ![9] = Rule(<<"\\","b","2","\\","b">>, <<"i","i">>)]

\* C12: the Title Normalizer rewrites a '1' to 'i' and a '2' to 'ii' only where
\* the digit has a word boundary on both sides; a '1' or '2' with a letter or a
\* digit right before it or right after it is left as it is.  So the title the
\* rules give is the title they give with only such bare digits rewritten.
C12_BareLevelDigit ==
    Ran("replace_title") =>
        \A row \in Rows(df_blizzard_salary_act) :
            row.adjusted_title.v =
                ApplyFrom(BareDigitRules, Lower(RawOf(row).current_title.v), 1)

\* The placeholder entries that the first rules of the title dictionary name.
Placeholders ==
    {<<"x">>,
     <<"p","o","s","i","t","i","o","n"," ","i","n"," ","i","i"," ","t","i","e","r">>,
     <<"c","h","o","o","s","e"," ","n","o","t"," ","t","o"," ","d","i","s","c","l","o","s","e">>,
     <<"c","a","n","'","t"," ","s","a","y"," ","(","l","o","s","s"," ","o","f"," ","a","n","o","n",
       "i","m","i","t","y",")">>}

\* C14: a record whose lowercased title is one of the placeholder entries has
\* the empty string as its adjusted_title once the title rules have run, and
\* it is in the output, with that empty title, whenever it meets none of the
\* salary and location drop conditions.
C14_GarbageTitleKept ==
    /\ Ran("replace_title") =>
           \A row \in Rows(df_blizzard_salary_act) :
               Lower(RawOf(row).current_title.v) \in Placeholders =>
                   row.adjusted_title = Cell(<<>>)
    /\ Ran("assign_vf") =>
           \A raw \in Rows(df_blizzard_salary) :
               (Kept(raw) /\ Lower(raw.current_title.v) \in Placeholders) =>
                   \E row \in Rows(df_blizzard_salary_vf) :
                       row.idx = raw.idx /\ row.adjusted_title = Cell(<<>>)

\* "Can't say (loss of anonimity)" with a yearly 120000 is in the output with
\* an empty adjusted_title.
C14_Witness ==
    /\ pc = "done"
    /\ \E row \in Rows(df_blizzard_salary_vf) :
          /\ RawOf(row).current_title =
                 Cell(<<"C","a","n","'","t"," ","s","a","y"," ","(","l","o","s","s"," ","o","f"," ",
                        "a","n","o","n","i","m","i","t","y",")">>)
          /\ row.current_salary = Cell(120000)
          /\ row.adjusted_title = Cell(<<>>)

\* C15: the notebook lists 'Senior 1' with 'X' and "Can't say" as an incomplete
\* entry, and the rules under 'Drop Incomplete entries' empty such entries: a
\* record whose raw title is "Senior 1" has the empty string as its
\* adjusted_title once the whole ordered rule list has run.
C15_SeniorOne ==
    Ran("replace_title") =>
        \A row \in Rows(df_blizzard_salary_act) :
            RawOf(row).current_title = Cell(<<"S","e","n","i","o","r"," ","1">>) =>
                row.adjusted_title = Cell(<<>>)

(***************************************************************************)
(* Fields that are passed through.                                         *)
(***************************************************************************)

\* The columns of the file that no normalizer and no standardizer writes.
PassThrough ==
    {"timestamp", "status", "current_title", "current_salary", "salary_type",
     "percent_incr", "other_info"}

\* C16: in every record of the working table and of the output table,
\* timestamp, status, current_title, current_salary, salary_type, percent_incr
\* and other_info are what they are in the loaded record with the same label;
\* the normalizers and the standardizer write adjusted_title, adjusted_salary,
\* location and performance_rating only.
C16_PassThrough ==
    \A row \in Rows(df_blizzard_salary_act) \cup Rows(df_blizzard_salary_vf) :
        \A c \in PassThrough : row[c] = RawOf(row)[c]

\* A contractor entered as 'Sr. Software Engineer' at 30 an hour is in the
\* output with its title, salary, status and other_info as entered, next to
\* the normalized title and the annualized salary.
C16_Witness ==
    /\ pc = "done"
    /\ \E row \in Rows(df_blizzard_salary_vf) :
          /\ row.current_title =
                 Cell(<<"S","r","."," ","S","o","f","t","w","a","r","e"," ","E","n","g","i","n","e","e","r">>)
          /\ row.adjusted_title =
                 Cell(<<"s","e","n","i","o","r"," ","s","o","f","t","w","a","r","e"," ","e","n","g","i",
                        "n","e","e","r">>)
          /\ row.current_salary = Cell(30)
          /\ row.adjusted_salary = Cell(62400)
          /\ row.status = Cell(<<"C","o","n","t","r","a","c","t","o","r">>)
          /\ row.other_info = Cell(<<"S","r","."," ","Q","A"," ","1"," ","T","o","p">>)
          /\ \A c \in PassThrough : row[c] = RawOf(row)[c]

(***************************************************************************)
(* Groups of software engineers.                                           *)
(***************************************************************************)

\* The titles that software_engineer_group names, each with its group.
GroupTitles == <<
    <<<<"a","s","s","o","c","i","a","t","e"," ","s","o","f","t","w","a","r","e"," ","e","n","g","i",
        "n","e","e","r">>,
      <<"1","_","s","e","_","e","n","t","r","y">>>>,
    <<<<"a","s","s","o","c","i","a","t","e"," ","s","o","f","t","w","a","r","e"," ","e","n","g","i",
        "n","e","e","r"," ","i","n"," ","t","e","s","t">>,
      <<"1","_","s","e","_","e","n","t","r","y">>>>,
    <<<<"s","o","f","t","w","a","r","e"," ","e","n","g","i","n","e","e","r">>,
      <<"2","_","s","e","_","m","i","d">>>>,
    <<<<"s","o","f","t","w","a","r","e"," ","e","n","g","i","n","e","e","r"," ","i","n"," ","t","e",
        "s","t">>,
      <<"2","_","s","e","_","m","i","d">>>>,
    <<<<"s","e","n","i","o","r"," ","s","o","f","t","w","a","r","e"," ","e","n","g","i","n","e","e",
        "r">>,
      <<"3","_","s","e","_","s","e","n","i","o","r">>>>,
    <<<<"s","e","n","i","o","r"," ","s","o","f","t","w","a","r","e"," ","e","n","g","i","n","e","e",
        "r"," ","i","n"," ","t","e","s","t"," ","i">>,
      <<"3","_","s","e","_","s","e","n","i","o","r">>>>,
    <<<<"s","e","n","i","o","r"," ","s","o","f","t","w","a","r","e"," ","e","n","g","i","n","e","e",
        "r"," ","i">>,
      <<"3","_","s","e","_","s","e","n","i","o","r">>>>,
    <<<<"s","e","n","i","o","r"," ","s","o","f","t","w","a","r","e"," ","e","n","g","i","n","e","e",
        "r"," ","i","i">>,
      <<"3","_","s","e","_","s","e","n","i","o","r">>>>,
    <<<<"p","r","i","n","c","i","p","a","l"," ","s","o","f","t","w","a","r","e"," ","e","n","g","i",
        "n","e","e","r"," ","i">>,
      <<"4","_","s","e","_","p","r","i","n","c","i","p","a","l">>>>,
    <<<<"p","r","i","n","c","i","p","a","l"," ","s","o","f","t","w","a","r","e"," ","e","n","g","i",
        "n","e","e","r">>,
      <<"4","_","s","e","_","p","r","i","n","c","i","p","a","l">>>>
    >>

\* C17: every output record whose lowercased raw title is one of the titles that
\* software_engineer_group names has that title unchanged as its adjusted_title
\* and has the group of that title, not 'other_title'.
C17_CanonicalTitles ==
    pc = "done" =>
        \A row \in Rows(df_blizzard_salary_vf) :
            \A n \in 1..Len(GroupTitles) :
                Lower(RawOf(row).current_title.v) = GroupTitles[n][1] =>
                    /\ row.adjusted_title = Cell(GroupTitles[n][1])
                    /\ row.software_engineer_group = Cell(GroupTitles[n][2])
                    /\ row.software_engineer_group # Cell(<<"o","t","h","e","r","_","t","i","t","l","e">>)

\* 'Principal Software Engineer' is in the output as 'principal software
\* engineer' in the group 4_se_principal.
C17_Witness ==
    /\ pc = "done"
    /\ \E row \in Rows(df_blizzard_salary_vf) :
          /\ row.current_title =
                 Cell(<<"P","r","i","n","c","i","p","a","l"," ","S","o","f","t","w","a","r","e"," ",
                        "E","n","g","i","n","e","e","r">>)
          /\ row.adjusted_title =
                 Cell(<<"p","r","i","n","c","i","p","a","l"," ","s","o","f","t","w","a","r","e"," ",
                        "e","n","g","i","n","e","e","r">>)
          /\ row.software_engineer_group = Cell(<<"4","_","s","e","_","p","r","i","n","c","i","p","a","l">>)

====
